---------------------------- MODULE Spec2Model ----------------------------
(***************************************************************************)
(* A model of tcardgen's text layout and drawing engine (package canvas),  *)
(* its segmenter (package text) and its front-matter date resolution       *)
(* (package hugo).                                                         *)
(*                                                                         *)
(* A string is a sequence of runes (code points).  Widths are 26.6         *)
(* fixed-point numbers (fixed.Int26_6): integers counting 1/64 pixel.      *)
(***************************************************************************)
EXTENDS Integers, Sequences, FiniteSets, TLC

(***************************************************************************)
(* Bounds of the model.                                                    *)
(***************************************************************************)
\* draw calls per behaviour of Spec
MaxCalls == 2
\* options per draw call of Spec
MaxOpts == 2
\* draw calls per behaviour of SpecPack
MaxPackCalls == 1
\* runes of a text drawn by SpecPack
MaxTextLen == 3
\* draw calls per behaviour of SpecBox
MaxBoxCalls == 1
\* chips of one DrawBoxTexts call of SpecBox
MaxChips == 3
\* runes of a segment handed to the fine segmentations by SpecSeg
MaxSegLen == 13

(***************************************************************************)
(* Runes, strings, whitespace.                                             *)
(***************************************************************************)
\* 65 is 'A', 66 is 'B', 97 is 'a'; 12288 is U+3000 IDEOGRAPHIC SPACE, a
\* full-width blank that unicode.IsSpace counts as white space.

\* unicode.IsSpace: the Latin-1 spaces and the White_Space code points above them
IsSpace(r) ==
    \/ r \in {9, 10, 11, 12, 13, 32, 133, 160}
    \/ r \in {5760, 8232, 8233, 8239, 8287, 12288}
    \/ r \in 8192..8202

RECURSIVE TrimLeftFunc(_)
\* strings.TrimLeftFunc(s, unicode.IsSpace)
TrimLeftFunc(s) ==
    IF s = <<>> THEN <<>>
    ELSE IF IsSpace(Head(s)) THEN TrimLeftFunc(Tail(s))
    ELSE s

RECURSIVE TrimRightFunc(_)
\* strings.TrimRightFunc(s, unicode.IsSpace)
TrimRightFunc(s) ==
    IF s = <<>> THEN <<>>
    ELSE IF IsSpace(s[Len(s)]) THEN TrimRightFunc(SubSeq(s, 1, Len(s) - 1))
    ELSE s

RECURSIVE Join(_)
\* strings.Join(texts, "")
Join(texts) ==
    IF texts = <<>> THEN <<>> ELSE Head(texts) \o Join(Tail(texts))

\* every string of at most n runes over the alphabet
Strings(alphabet, n) == UNION {[1..k -> alphabet] : k \in 0..n}

(***************************************************************************)
(* Fixed-point arithmetic (golang.org/x/image/math/fixed).                 *)
(***************************************************************************)
\* fixed.I(i): the integer i as an Int26_6
FixedI(i) == i * 64

\* Int26_6.Round: the nearest integer, halves rounded up ((x + 0x20) >> 6)
Round(x) == (x + 32) \div 64

(***************************************************************************)
(* Font faces.  A face gives its line height, its descent and the advance  *)
(* of each glyph; "nil" is the Drawer's Face before any FontFace option.   *)
(* Face "Five" has half-width glyphs of 5 px and a full-width blank of     *)
(* 10 px; face "Frac" has sub-pixel advances (5.5 px and 11 px).           *)
(***************************************************************************)
FaceNames == {"Five", "Frac"}

Metrics(face) ==
    IF face = "Five" THEN [Height |-> 384, Descent |-> 64]
    ELSE [Height |-> 422, Descent |-> 90]

GlyphAdvance(face, r) ==
    IF face = "Five" THEN (IF r = 12288 THEN 640 ELSE 320)
    ELSE (IF r = 12288 THEN 704 ELSE 352)

RECURSIVE MeasureString(_, _)
\* font.Drawer.MeasureString: the sum of the glyphs' advances
MeasureString(face, s) ==
    IF s = <<>> THEN 0
    ELSE GlyphAdvance(face, Head(s)) + MeasureString(face, Tail(s))

(***************************************************************************)
(* The segmenter.  BudouX's parser is an external model-driven tokenizer:  *)
(* it cuts the text between runes wherever its model says so, so its       *)
(* result is any division of the text into consecutive chunks.             *)
(***************************************************************************)
RECURSIVE Cut(_, _, _)
\* the chunks of t from position `from`, cut after each position of breaks
Cut(t, breaks, from) ==
    IF from > Len(t) THEN <<>>
    ELSE LET ends == {e \in from..Len(t) : e \in breaks \/ e = Len(t)}
             e == CHOOSE x \in ends : \A y \in ends : x <= y
         IN  <<SubSeq(t, from, e)>> \o Cut(t, breaks, e + 1)

\* the results budoux.Parser.Parse may give for t
Parse(t) == {Cut(t, breaks, 1) : breaks \in SUBSET (1..(Len(t) - 1))}

RECURSIVE FilterEmpty(_)
FilterEmpty(segments) ==
    IF segments = <<>> THEN <<>>
    ELSE IF Head(segments) # <<>> THEN <<Head(segments)>> \o FilterEmpty(Tail(segments))
    ELSE FilterEmpty(Tail(segments))

\* text.SegmentForLineBreaks: the segmentations of t at the default level
SegmentForLineBreaks(t) ==
    IF t = <<>> THEN {<<>>} ELSE {FilterEmpty(p) : p \in Parse(t)}

(***************************************************************************)
(* Style options (textDrawOption).  An option is a record: its kind, and   *)
(* its argument in n (a number), s (a name) or pad (a config.Padding).     *)
(***************************************************************************)
ZeroPadding == [Top |-> 0, Right |-> 0, Bottom |-> 0, Left |-> 0]

Opt(kind, n, s) == [kind |-> kind, n |-> n, s |-> s, pad |-> ZeroPadding]

FontFace(ff) == Opt("FontFace", 0, ff)
FontFaceFromFFA(style, size) == Opt("FontFaceFromFFA", size, style)
FgHexColor(hex) == Opt("FgHexColor", 0, hex)
BgColor(color) == Opt("BgColor", 0, color)
BgHexColor(hex) == Opt("BgHexColor", 0, hex)
MaxWidth(max) == Opt("MaxWidth", max, "")
LineSpacing(px) == Opt("LineSpacing", px, "")
BoxPadding(bp) == [kind |-> "BoxPadding", n |-> 0, s |-> "", pad |-> bp]
BoxSpacing(px) == Opt("BoxSpacing", px, "")
BoxAlign(align) == Opt("BoxAlign", 0, align)

\* Hex: the colour a hex string names, or an error for a malformed string
Hex(hex) ==
    IF hex \in {"#000000", "#ffffff"} THEN [color |-> hex, err |-> "nil"]
    ELSE [color |-> "nil", err |-> "InvalidColorFormat"]

\* FontFamily.NewFace: the family holds the regular style only, and gives face
\* "Five" at size 5 and face "Frac" at any other size
NewFace(style, size) ==
    IF style = "Regular"
    THEN [face |-> IF size = 5 THEN "Five" ELSE "Frac", err |-> "nil"]
    ELSE [face |-> "nil", err |-> "FontFaceUnavailable"]

\* one option applied to the canvas cv: the canvas after it and its error
ApplyOption(cv, o) ==
    CASE o.kind = "FontFace" ->
            [c |-> [cv EXCEPT !.fdr.Face = o.s], err |-> "nil"]
      [] o.kind = "FontFaceFromFFA" ->
            LET r == NewFace(o.s, o.n)
            IN  IF r.err # "nil" THEN [c |-> cv, err |-> r.err]
                ELSE [c |-> [cv EXCEPT !.fdr.Face = r.face], err |-> "nil"]
      [] o.kind = "FgHexColor" ->
            LET r == Hex(o.s)
            IN  IF r.err # "nil" THEN [c |-> cv, err |-> r.err]
                ELSE [c |-> [cv EXCEPT !.fdr.Src = r.color], err |-> "nil"]
      [] o.kind = "BgColor" ->
            [c |-> [cv EXCEPT !.bgColor = o.s], err |-> "nil"]
      [] o.kind = "BgHexColor" ->
            LET r == Hex(o.s)
            IN  IF r.err # "nil" THEN [c |-> cv, err |-> r.err]
                ELSE [c |-> [cv EXCEPT !.bgColor = r.color], err |-> "nil"]
      [] o.kind = "MaxWidth" ->
            [c |-> [cv EXCEPT !.maxWidth = o.n], err |-> "nil"]
      [] o.kind = "LineSpacing" ->
            [c |-> [cv EXCEPT !.lineSpace = o.n], err |-> "nil"]
      [] o.kind = "BoxPadding" ->
            [c |-> [cv EXCEPT !.boxPadding = o.pad], err |-> "nil"]
      [] o.kind = "BoxSpacing" ->
            [c |-> [cv EXCEPT !.boxSpace = o.n], err |-> "nil"]
      [] o.kind = "BoxAlign" ->
            [c |-> [cv EXCEPT !.boxAlign = o.s], err |-> "nil"]

RECURSIVE ApplyFromKeepGoing(_, _, _)
\* the loop going on after an error, and returning the first one at its end
ApplyFromKeepGoing(cv, opts, i) ==
    IF i > Len(opts) THEN [c |-> cv, err |-> "nil", n |-> Len(opts)]
    ELSE LET r == ApplyOption(cv, opts[i])
             rest == ApplyFromKeepGoing(r.c, opts, i + 1)
         IN  IF r.err # "nil" THEN [c |-> rest.c, err |-> r.err, n |-> i - 1]
             ELSE rest

RECURSIVE ApplyFrom(_, _, _)
\* the loop over opts from option i on: it returns at the first error
ApplyFrom(cv, opts, i) ==
    IF i > Len(opts) THEN [c |-> cv, err |-> "nil", n |-> Len(opts)]
    ELSE LET r == ApplyOption(cv, opts[i])
         IN  IF r.err # "nil" THEN [c |-> r.c, err |-> r.err, n |-> i - 1]
             ELSE ApplyFrom(r.c, opts, i + 1)

\* for _, f := range opts { if err := f(c); err != nil { return err } }
ApplyOpts(cv, opts) == ApplyFrom(cv, opts, 1)

(***************************************************************************)
(* State.                                                                  *)
(***************************************************************************)
VARIABLES
    c,          \* the Canvas: dst, fdr (Face, Src, Dot), bgColor, maxWidth,
                \* lineSpace, boxPadding, boxSpace, boxAlign
    call,       \* what the last draw call was given and what it did
    calls,      \* the number of draw calls made
    lastWidth,  \* history: the most recently applied MaxWidth option, if any
    seg,        \* the fine segmentations: the segment, the level, the result
    hugo        \* front matter: the header's fields, the clock, the writer,
                \* the record and the error returned

vars == <<c, call, calls, lastWidth, seg, hugo>>

\* CreateCanvasFromImage: the background copied into dst, a Drawer with no Face,
\* a black source and the dot at the origin; every other field is Go's zero value
NewCanvas ==
    [dst |-> <<>>,
     fdr |-> [Face |-> "nil", Src |-> "black", Dot |-> [X |-> 0, Y |-> 0]],
     bgColor |-> "nil",
     maxWidth |-> 0,
     lineSpace |-> 0,
     boxPadding |-> ZeroPadding,
     boxSpace |-> 0,
     boxAlign |-> "left"]

NoCall ==
    [op |-> "none", outcome |-> "none", err |-> "nil", opts |-> <<>>,
     nApplied |-> 0, text |-> <<>>, texts |-> <<>>,
     start |-> [X |-> 0, Y |-> 0], mode |-> "none", segments |-> <<>>,
     painted |-> <<>>, decisions |-> <<>>, chips |-> <<>>]

NoSeg == [segments |-> <<>>, level |-> "default", out |-> <<>>, done |-> FALSE]

NoDate == [kind |-> "absent", t |-> 0]

NoHugo ==
    [cfm |-> [title |-> "absent", authors |-> "absent", categories |-> "absent",
              tags |-> "absent", date |-> NoDate, lastmod |-> NoDate,
              publishDate |-> NoDate],
     currentTime |-> 0, w |-> <<>>, fm |-> [isNil |-> TRUE, Date |-> 0],
     err |-> "nil", done |-> FALSE]

(***************************************************************************)
(* Painting.  dst is the pixel buffer, kept as the list of what was        *)
(* painted on the background, in order.                                    *)
(***************************************************************************)
\* font.Drawer.DrawString: the glyphs of s painted from the dot in the source
\* colour, and the dot moved right by their advances
DrawString(cv, s) ==
    [cv EXCEPT
        !.dst = Append(@, [kind |-> "text", text |-> s, color |-> cv.fdr.Src,
                           X0 |-> cv.fdr.Dot.X, Y0 |-> cv.fdr.Dot.Y,
                           X1 |-> 0, Y1 |-> 0]),
        !.fdr.Dot.X = @ + MeasureString(cv.fdr.Face, s)]

\* draw.Draw(c.dst, rect, c.bgColor, p, draw.Src)
DrawRect(cv, minX, minY, maxX, maxY) ==
    [cv EXCEPT
        !.dst = Append(@, [kind |-> "rect", text |-> <<>>, color |-> cv.bgColor,
                           X0 |-> minX, Y0 |-> minY, X1 |-> maxX, Y1 |-> maxY])]

(***************************************************************************)
(* The line packer: drawMultiLineTextWithBudoX.  A packer state p holds    *)
(* the canvas, the line buffer, and what the loop has done so far: the     *)
(* lines it painted (each with the segments it holds) and its decisions.   *)
(***************************************************************************)
\* the comparison made strict: a tie breaks the line
FitsStrict(adv, maxWidth) == adv < FixedI(maxWidth)

\* adv <= fixed.I(c.maxWidth)
Fits(adv, maxWidth) == adv <= FixedI(maxWidth)

\* the segment measured without the line it would join
TestAdvanceSegmentOnly(face, currentLine, segment) == MeasureString(face, segment)

\* adv := c.fdr.MeasureString(currentLine + segment)
TestAdvance(face, currentLine, segment) == MeasureString(face, currentLine \o segment)

\* c.fdr.DrawString(lineContent), recorded as a painted line
PaintLine(p, lineContent) ==
    [p EXCEPT
        !.c = DrawString(p.c, lineContent),
        !.painted = Append(@, [text |-> lineContent, X |-> p.c.fdr.Dot.X,
                               Y |-> p.c.fdr.Dot.Y, segs |-> p.bufSegs])]

\* c.fdr.Dot.X = x; c.fdr.Dot.Y += Height + fixed.I(c.lineSpace)
AdvanceLine(p, x) ==
    [p EXCEPT
        !.c.fdr.Dot.X = x,
        !.c.fdr.Dot.Y = @ + Metrics(p.c.fdr.Face).Height + FixedI(p.c.lineSpace)]

\* the else branch: the buffer painted if it has content, and reset
FlushLine(p, x) ==
    LET lineContent == TrimRightFunc(p.lineBuf)
    IN  IF Len(p.lineBuf) > 0
        THEN [(IF lineContent # <<>> THEN AdvanceLine(PaintLine(p, lineContent), x)
               ELSE p)
              EXCEPT !.lineBuf = <<>>, !.bufSegs = {}]
        ELSE p

\* the loop ending without painting what the buffer still holds
FinalLineForgotten(p, i, n) == p

\* after the last segment the rest of the buffer is painted
FinalLine(p, i, n) ==
    LET lineContent == TrimRightFunc(p.lineBuf)
    IN  IF i = n /\ Len(p.lineBuf) > 0 /\ lineContent # <<>>
        THEN PaintLine(p, lineContent)
        ELSE p

\* one turn of the loop, for segments[i]
PackSegment(p, segments, i, x) ==
    LET segment == segments[i]
        testLine == p.lineBuf \o segment
        adv == TestAdvance(p.c.fdr.Face, p.lineBuf, segment)
        fits == Fits(adv, p.c.maxWidth)
        newLineSegment == TrimLeftFunc(segment)
        flushed == FlushLine(p, x)
        p1 == IF fits
              THEN [p EXCEPT !.lineBuf = testLine, !.bufSegs = @ \cup {i}]
              ELSE [flushed EXCEPT
                       !.lineBuf = @ \o newLineSegment,
                       !.bufSegs = IF newLineSegment = <<>> THEN {} ELSE {i}]
        p2 == [p1 EXCEPT
                  !.decisions = Append(@,
                      [i |-> i, buf |-> p.lineBuf, appended |-> fits,
                       broke |-> ~fits /\ Len(flushed.painted) > Len(p.painted)])]
    IN  IF segment = <<>> THEN p ELSE FinalLine(p2, i, Len(segments))

RECURSIVE PackFrom(_, _, _, _)
PackFrom(p, segments, i, x) ==
    IF i > Len(segments) THEN p
    ELSE PackFrom(PackSegment(p, segments, i, x), segments, i + 1, x)

\* drawMultiLineTextWithBudoX, given the segments of the text
drawMultiLineTextWithBudoX(cv, segments) ==
    PackFrom([c |-> cv, lineBuf |-> <<>>, bufSegs |-> {}, painted |-> <<>>,
              decisions |-> <<>>],
             segments, 1, cv.fdr.Dot.X)

(***************************************************************************)
(* The draw calls.                                                         *)
(***************************************************************************)
RECURSIVE LastMaxWidth(_, _)
\* history: the most recent MaxWidth option among those applied, else lw
LastMaxWidth(lw, appliedOpts) ==
    IF appliedOpts = <<>> THEN lw
    ELSE LET o == appliedOpts[Len(appliedOpts)]
         IN  IF o.kind = "MaxWidth" THEN [set |-> TRUE, max |-> o.n]
             ELSE LastMaxWidth(lw, SubSeq(appliedOpts, 1, Len(appliedOpts) - 1))

\* what every draw call records of its arguments and its options' fate
CallRecord(op, opts, r, start) ==
    [NoCall EXCEPT !.op = op, !.opts = opts, !.nApplied = r.n, !.err = r.err,
                   !.start = start]

\* the dot placed and the width limit cleared, as if it lasted one call only
PlaceDotClearWidth(cv, start) ==
    [cv EXCEPT !.maxWidth = 0,
               !.fdr.Dot = [X |-> FixedI(start.X),
                            Y |-> FixedI(start.Y) + Metrics(cv.fdr.Face).Height]]

\* c.fdr.Dot.Y = fixed.I(start.Y) + Height; c.fdr.Dot.X = fixed.I(start.X)
PlaceDot(cv, start) ==
    [cv EXCEPT !.fdr.Dot = [X |-> FixedI(start.X),
                            Y |-> FixedI(start.Y) + Metrics(cv.fdr.Face).Height]]

\* Canvas.DrawTextAtPoint(text, start, opts...).  A call on a canvas whose
\* Drawer has no Face panics at Face.Metrics(), after its options were applied.
DrawTextAtPoint(text, start, opts) ==
    LET r == ApplyOpts(c, opts)
        rec == [CallRecord("DrawTextAtPoint", opts, r, start) EXCEPT !.text = text]
        placed == PlaceDot(r.c, start)
    IN  /\ calls' = calls + 1
        /\ lastWidth' = LastMaxWidth(lastWidth, SubSeq(opts, 1, r.n))
        /\ UNCHANGED <<seg, hugo>>
        /\ IF r.err # "nil"
           THEN /\ c' = r.c
                /\ call' = [rec EXCEPT !.outcome = "error"]
           ELSE IF r.c.fdr.Face = "nil"
           THEN /\ c' = r.c
                /\ call' = [rec EXCEPT !.outcome = "panic"]
           ELSE IF r.c.maxWidth = 0
           THEN /\ c' = DrawString(placed, text)
                /\ call' = [rec EXCEPT
                               !.outcome = "ok", !.mode = "single",
                               !.painted = <<[text |-> text, X |-> placed.fdr.Dot.X,
                                              Y |-> placed.fdr.Dot.Y, segs |-> {}]>>]
           ELSE \E segments \in SegmentForLineBreaks(text) :
                    LET p == drawMultiLineTextWithBudoX(placed, segments)
                    IN  /\ c' = p.c
                        /\ call' = [rec EXCEPT
                                       !.outcome = "ok", !.mode = "multi",
                                       !.segments = segments,
                                       !.painted = p.painted,
                                       !.decisions = p.decisions]

\* the start x of the first chip: shifted left for right alignment by the
\* paddings, the spacing and the rounded width of the joined texts
BoxStartX(cv, texts, start) ==
    LET n == Len(texts)
    IN  IF cv.boxAlign = "right"
        THEN start.X - (cv.boxPadding.Left * n + cv.boxPadding.Right * n
                        + cv.boxSpace * (n - 1)
                        + Round(MeasureString(cv.fdr.Face, Join(texts))))
        ELSE start.X

\* image.Rect(0, start.Y, 0, y1): the rows of every chip (Rect orders its corners)
BoxRows(cv, start) ==
    LET fm == Metrics(cv.fdr.Face)
        y1 == start.Y + Round(fm.Height) + cv.boxPadding.Top
              + cv.boxPadding.Bottom + Round(fm.Descent)
    IN  IF y1 < start.Y THEN [Min |-> y1, Max |-> start.Y]
        ELSE [Min |-> start.Y, Max |-> y1]

\* the right padding left out of the chip's width
ChipMaxXNoRightPadding(cv, pX, fw) == pX + Round(fw) + cv.boxPadding.Left

\* rect.Max.X = p.X + fw.Round() + Left + Right
ChipMaxX(cv, pX, fw) == pX + Round(fw) + cv.boxPadding.Left + cv.boxPadding.Right

\* one chip: its rectangle filled, its text painted, p.X moved past it.
\* draw.Draw returns at once on an empty rectangle; on any other it reads the
\* source colour, and panics when c.bgColor is nil.
DrawChip(b, s, start) ==
    LET cv == b.c
        fw == MeasureString(cv.fdr.Face, s)
        rows == BoxRows(cv, start)
        minX == b.pX
        maxX == ChipMaxX(cv, b.pX, fw)
        empty == minX >= maxX \/ rows.Min >= rows.Max
        filled == IF empty THEN cv ELSE DrawRect(cv, minX, rows.Min, maxX, rows.Max)
        dotted == [filled EXCEPT
                      !.fdr.Dot = [X |-> FixedI(b.pX + cv.boxPadding.Left),
                                   Y |-> FixedI(start.Y + cv.boxPadding.Top - 1)
                                         + Metrics(cv.fdr.Face).Height]]
    IN  IF ~empty /\ cv.bgColor = "nil" THEN [b EXCEPT !.panicked = TRUE]
        ELSE [b EXCEPT
                 !.c = DrawString(dotted, s),
                 !.pX = maxX + cv.boxSpace,
                 !.chips = Append(@, [text |-> s, MinX |-> minX, MaxX |-> maxX,
                                      MinY |-> rows.Min, MaxY |-> rows.Max])]

RECURSIVE BoxFrom(_, _, _, _)
\* for _, s := range texts
BoxFrom(b, texts, i, start) ==
    IF i > Len(texts) \/ b.panicked THEN b
    ELSE BoxFrom(DrawChip(b, texts[i], start), texts, i + 1, start)

\* Canvas.DrawBoxTexts(texts, start, opts...).  With no Face the call panics
\* before it paints (at MeasureString, or at Face.Metrics()).
DrawBoxTexts(texts, start, opts) ==
    LET r == ApplyOpts(c, opts)
        rec == [CallRecord("DrawBoxTexts", opts, r, start) EXCEPT !.texts = texts]
        b == BoxFrom([c |-> r.c, pX |-> BoxStartX(r.c, texts, start),
                      chips |-> <<>>, panicked |-> FALSE],
                     texts, 1, start)
    IN  /\ calls' = calls + 1
        /\ lastWidth' = LastMaxWidth(lastWidth, SubSeq(opts, 1, r.n))
        /\ UNCHANGED <<seg, hugo>>
        /\ IF r.err # "nil"
           THEN /\ c' = r.c
                /\ call' = [rec EXCEPT !.outcome = "error"]
           ELSE IF r.c.fdr.Face = "nil"
           THEN /\ c' = r.c
                /\ call' = [rec EXCEPT !.outcome = "panic"]
           ELSE /\ c' = b.c
                /\ call' = [rec EXCEPT
                               !.outcome = IF b.panicked THEN "panic" ELSE "ok",
                               !.chips = b.chips]

(***************************************************************************)
(* Spec: a canvas drawn on by calls of both kinds with any short list of   *)
(* options.  A panic ends the program.                                     *)
(***************************************************************************)
Point(x, y) == [X |-> x, Y |-> y]

Seqs(S, n) == UNION {[1..k -> S] : k \in 0..n}

SpecOptions ==
    {FontFace("Five"), MaxWidth(0), MaxWidth(5), FgHexColor("fff")}

Init ==
    /\ c = NewCanvas
    /\ call = NoCall
    /\ calls = 0
    /\ lastWidth = [set |-> FALSE, max |-> 0]
    /\ seg = NoSeg
    /\ hugo = NoHugo

Running == call.outcome # "panic"

TextCall ==
    /\ Running /\ calls < MaxCalls
    /\ \E opts \in Seqs(SpecOptions, MaxOpts) :
           DrawTextAtPoint(<<97, 97>>, Point(10, 10), opts)

BoxCall ==
    /\ Running /\ calls < MaxCalls
    /\ \E opts \in Seqs(SpecOptions, MaxOpts) :
           DrawBoxTexts(<<<<65>>, <<66, 66>>>>, Point(10, 10), opts)

Next == TextCall \/ BoxCall

Spec == Init /\ [][Next]_vars

(***************************************************************************)
(* SpecPack: wrapped text.  Every text of at most MaxTextLen runes over    *)
(* 'a' and the full-width blank, in every segmentation, drawn with a face, *)
(* a width limit and a line spacing.                                       *)
(***************************************************************************)
PackRunes == {97, 12288}

PackWidths == {5, 10}

PackCall ==
    /\ Running /\ calls < MaxPackCalls
    /\ \E text \in Strings(PackRunes, MaxTextLen), face \in FaceNames,
          w \in PackWidths :
           DrawTextAtPoint(text, Point(10, 10),
                           <<FontFace(face), MaxWidth(w), LineSpacing(2)>>)

NextPack == PackCall

SpecPack == Init /\ [][NextPack]_vars

(***************************************************************************)
(* SpecBox: chips.  Every list of at most MaxChips texts among "A" and     *)
(* "BB", with a face, a padding, a spacing and an alignment.               *)
(***************************************************************************)
BoxWords == {<<65>>, <<66, 66>>}

Padding(top, right, bottom, left) ==
    [Top |-> top, Right |-> right, Bottom |-> bottom, Left |-> left]

\* a face, a padding and a spacing: the example's (5 px glyphs, padding 2,
\* spacing 4), the same with no spacing, with a negative spacing and with
\* sub-pixel glyphs, and a padding with a negative side
BoxStyles ==
    {<<"Five", Padding(2, 2, 2, 2), 4>>,
     <<"Five", Padding(2, 2, 2, 2), 0>>,
     <<"Five", Padding(2, 2, 2, 2), -6>>,
     <<"Frac", Padding(2, 2, 2, 2), 4>>,
     <<"Five", Padding(3, -7, 3, 0), 0>>}

BoxOnlyCall ==
    /\ Running /\ calls < MaxBoxCalls
    /\ \E texts \in Seqs(BoxWords, MaxChips), style \in BoxStyles,
          align \in {"left", "right"} :
           DrawBoxTexts(texts, Point(10, 10),
                        <<FontFace(style[1]), BgColor("white"), BoxPadding(style[2]),
                          BoxSpacing(style[3]), BoxAlign(align)>>)

NextBox == BoxOnlyCall

SpecBox == Init /\ [][NextBox]_vars

(***************************************************************************)
(* Properties of the line packer (SpecPack).                               *)
(***************************************************************************)
\* the last call was a wrapped DrawTextAtPoint that returned
Wrapped == call.op = "DrawTextAtPoint" /\ call.outcome = "ok" /\ call.mode = "multi"

\* the advance of s in the face of the canvas
Width(s) == MeasureString(c.fdr.Face, s)

Limit == FixedI(c.maxWidth)

Trimmed(s) == TrimRightFunc(TrimLeftFunc(s))

\* line l is segment i alone: nothing but that segment, less its outer blanks
Alone(l, i) == l.segs = {i} /\ l.text = Trimmed(call.segments[i])

\* every painted line is within the limit, or is one segment wider than it
LinesWithinLimit ==
    \A k \in DOMAIN call.painted :
        \/ Width(call.painted[k].text) <= Limit
        \/ \E i \in DOMAIN call.segments :
               Alone(call.painted[k], i) /\ Width(call.segments[i]) > Limit

\* C1 as stated: every painted line measures at most W, except a line that is
\* exactly one segment whose own width exceeds W; and every segment whose own
\* width exceeds W is painted alone on a line, never merged, never dropped.
C1_AsStated ==
    Wrapped =>
        /\ LinesWithinLimit
        /\ \A i \in DOMAIN call.segments :
               Width(call.segments[i]) > Limit =>
                   \E k \in DOMAIN call.painted : Alone(call.painted[k], i)

\* C1 (amended): every painted line measures at most W, except a line that is
\* exactly one segment whose own width exceeds W; and every segment that is
\* still wider than W once its leading white space is stripped is painted
\* alone on a line, never merged, never dropped.
C1_LineWidths ==
    Wrapped =>
        /\ LinesWithinLimit
        /\ \A i \in DOMAIN call.segments :
               Width(TrimLeftFunc(call.segments[i])) > Limit =>
                   \E k \in DOMAIN call.painted : Alone(call.painted[k], i)

\* a call that painted a line within the limit and, after a neighbour, a line
\* over the limit that is one wide segment alone
C1_Witness ==
    /\ Wrapped
    /\ Len(call.segments) >= 2
    /\ \E k \in DOMAIN call.painted : Width(call.painted[k].text) <= Limit
    /\ \E k \in DOMAIN call.painted :
           /\ Width(call.painted[k].text) > Limit
           /\ \E i \in DOMAIN call.segments : Alone(call.painted[k], i)

AllSpace(s) == \A k \in DOMAIN s : IsSpace(s[k])

RECURSIVE Reassembles(_, _)
\* t is the lines in order, with nothing but white space before, between
\* and after them
Reassembles(t, lines) ==
    IF lines = <<>> THEN AllSpace(t)
    ELSE LET l == Head(lines)
         IN  \E k \in 0..Len(t) :
                 /\ AllSpace(SubSeq(t, 1, k))
                 /\ k + Len(l) <= Len(t)
                 /\ SubSeq(t, k + 1, k + Len(l)) = l
                 /\ Reassembles(SubSeq(t, k + Len(l) + 1, Len(t)), Tail(lines))

LineTexts == [k \in DOMAIN call.painted |-> call.painted[k].text]

\* a line boundary: the end of a painted line and the start of the next
EdgesTrimmed ==
    \A k \in DOMAIN call.painted :
        LET l == call.painted[k].text
        IN  /\ l # <<>>
            /\ ~IsSpace(l[Len(l)])
            /\ k > 1 => ~IsSpace(l[1])

\* C2: the painted lines, in order, are the concatenation of the segments less
\* white space at line boundaries only: nothing else is lost, duplicated or
\* reordered, and what the buffer holds after the last segment is painted.
C2_LinesReassembleText ==
    Wrapped =>
        /\ Join(call.segments) = call.text
        /\ Reassembles(Join(call.segments), LineTexts)
        /\ EdgesTrimmed

\* a call of several lines that lost white space at a line boundary
C2_Witness ==
    /\ Wrapped
    /\ Len(call.painted) >= 2
    /\ Join(LineTexts) # Join(call.segments)
    /\ \E k \in DOMAIN call.text : ~IsSpace(call.text[k])

\* C9 as stated: a wrapped call that paints n >= 1 lines paints the first at
\* x = start.x on the baseline start.y + line height, every line at
\* x = start.x, each next baseline one (line height + line spacing) lower, and
\* leaves the dot's y at start.y + height + (n-1) * (height + line spacing).
C9_AsStated ==
    (Wrapped /\ Len(call.painted) >= 1) =>
        LET h == Metrics(c.fdr.Face).Height
            step == h + FixedI(c.lineSpace)
            n == Len(call.painted)
        IN  /\ call.painted[1].Y = FixedI(call.start.Y) + h
            /\ \A k \in 1..n : call.painted[k].X = FixedI(call.start.X)
            /\ \A k \in 1..(n - 1) : call.painted[k + 1].Y = call.painted[k].Y + step
            /\ c.fdr.Dot.Y = FixedI(call.start.Y) + h + (n - 1) * step

\* C10 : the packer decides once per segment, in order: the segment joins the
\* line buffer exactly when buffer + segment measures at most W (a tie stays
\* on the line), and a line is broken before a segment only when buffer +
\* segment measures more than W.
C10_GreedyTieBreak ==
    Wrapped =>
        /\ Len(call.decisions) = Len(call.segments)
        /\ \A k \in DOMAIN call.decisions :
               LET d == call.decisions[k]
                   adv == Width(d.buf \o call.segments[k])
               IN  /\ d.i = k
                   /\ d.appended <=> adv <= Limit
                   /\ d.broke => adv > Limit
                   /\ d.buf = IF k = 1 THEN <<>>
                              ELSE IF call.decisions[k - 1].appended
                              THEN call.decisions[k - 1].buf \o call.segments[k - 1]
                              ELSE TrimLeftFunc(call.segments[k - 1])
        /\ Len(call.painted) <= Len(call.segments)

\* a segment that made a non-empty line exactly W wide and stayed on it, in a
\* call that also broke a line
C10_Witness ==
    /\ Wrapped
    /\ \E k \in DOMAIN call.decisions :
           LET d == call.decisions[k]
           IN  d.buf # <<>> /\ d.appended /\ Width(d.buf \o call.segments[k]) = Limit
    /\ \E k \in DOMAIN call.decisions : call.decisions[k].broke

(***************************************************************************)
(* Properties of the options (Spec).                                       *)
(***************************************************************************)
\* option o fails whatever the canvas: a malformed hex colour, or a face the
\* font family cannot give
Fails(o) ==
    \/ o.kind \in {"FgHexColor", "BgHexColor"} /\ Hex(o.s).err # "nil"
    \/ o.kind = "FontFaceFromFFA" /\ NewFace(o.s, o.n).err # "nil"

RECURSIVE Styled(_, _, _)
\* the canvas after the first n of opts, applied one by one
Styled(cv, opts, n) ==
    IF n = 0 THEN cv ELSE ApplyOption(Styled(cv, opts, n - 1), opts[n]).c

\* C3: DrawTextAtPoint and DrawBoxTexts apply their options in call order, and
\* the first option that fails ends the call with its error: the options before
\* it are applied, none after it is, the cursor does not move and the pixel
\* buffer is what it was before the call.
C3_FailedOptionAborts ==
    [][LET opts == call'.opts
           failing == {k \in DOMAIN opts : Fails(opts[k])}
       IN  /\ (call'.outcome = "error") <=> (failing # {})
           /\ failing # {} =>
                  LET first == CHOOSE k \in failing : \A j \in failing : k <= j
                  IN  /\ call'.nApplied = first - 1
                      /\ call'.err = ApplyOption(c, opts[first]).err
                      /\ c' = Styled(c, opts, first - 1)
                      /\ c'.dst = c.dst
                      /\ c'.fdr.Dot = c.fdr.Dot
           /\ failing = {} => call'.nApplied = Len(opts)
      ]_vars

\* a failed call on a canvas already painted on, whose failing option came
\* first and was followed by an option that would have changed the canvas
C3_Witness ==
    /\ call.outcome = "error"
    /\ c.dst # <<>>
    /\ Len(call.opts) = 2
    /\ call.nApplied = 0
    /\ ApplyOption(c, call.opts[2]).c # c

\* the MaxWidth in force: the last MaxWidth option ever applied, else 0
CurrentMaxWidth == IF lastWidth.set THEN lastWidth.max ELSE 0

\* the last call painted its whole text as one run from the start point and
\* segmented nothing
Unwrapped ==
    /\ call.mode = "single"
    /\ call.segments = <<>> /\ call.decisions = <<>>
    /\ call.painted =
          <<[text |-> call.text, X |-> FixedI(call.start.X),
             Y |-> FixedI(call.start.Y) + Metrics(c.fdr.Face).Height, segs |-> {}]>>
    /\ c.dst # <<>> /\ c.dst[Len(c.dst)].text = call.text

\* C4: style persists across calls: maxWidth is the value of the most recently
\* applied MaxWidth option of this or any earlier call (0 if there was none),
\* whatever other options were applied; and a DrawTextAtPoint call paints the
\* text as one unwrapped run, packer not invoked, exactly when that value is 0.
C4_MaxWidthPersists ==
    /\ c.maxWidth = CurrentMaxWidth
    /\ (call.op = "DrawTextAtPoint" /\ call.outcome = "ok") =>
           /\ Unwrapped <=> CurrentMaxWidth = 0
           /\ ~Unwrapped <=> call.mode = "multi"

\* a second call that wrapped its text under a MaxWidth set by the first call
\* only, after applying another option
C4_Witness ==
    /\ calls = 2
    /\ call.op = "DrawTextAtPoint" /\ call.outcome = "ok" /\ call.mode = "multi"
    /\ call.opts # <<>>
    /\ \A k \in DOMAIN call.opts : call.opts[k].kind # "MaxWidth"

(***************************************************************************)
(* Properties of the chips (SpecBox).                                      *)
(***************************************************************************)
Boxed == call.op = "DrawBoxTexts" /\ call.outcome = "ok"

\* C5 as stated: with right alignment and at least one text, the right edge
\* of the last chip is at start.x.
C5_AsStated ==
    (Boxed /\ c.boxAlign = "right" /\ call.chips # <<>>) =>
        call.chips[Len(call.chips)].MaxX = call.start.X

\* the chips follow one another from start.x: each as wide as its rounded text
\* width plus the left and right paddings, each boxSpace after the one before
ChipsInARow ==
    /\ Len(call.chips) = Len(call.texts)
    /\ \A k \in DOMAIN call.chips :
           LET ch == call.chips[k]
           IN  /\ ch.text = call.texts[k]
               /\ ch.MaxX - ch.MinX = Round(Width(ch.text)) + c.boxPadding.Left
                                      + c.boxPadding.Right
               /\ ch.MinX = IF k = 1 THEN call.start.X
                            ELSE call.chips[k - 1].MaxX + c.boxSpace

\* two chips share a pixel
Overlap(a, b) ==
    /\ a.MinX < a.MaxX /\ b.MinX < b.MaxX
    /\ a.MinY < a.MaxY /\ b.MinY < b.MaxY
    /\ a.MinX < b.MaxX /\ b.MinX < a.MaxX
    /\ a.MinY < b.MaxY /\ b.MinY < a.MaxY

NoOverlap ==
    \A j, k \in DOMAIN call.chips : j < k => ~Overlap(call.chips[j], call.chips[k])

\* C6 as stated: with left alignment the chips are in a row from start.x, and
\* no two chip rectangles overlap.
C6_AsStated ==
    (Boxed /\ c.boxAlign = "left") => ChipsInARow /\ NoOverlap

\* C6 (amended): with left alignment the chips are in a row from start.x; no
\* two chip rectangles overlap when boxSpace and the left and right paddings
\* are not negative.
C6_LeftLayout ==
    (Boxed /\ c.boxAlign = "left") =>
        /\ ChipsInARow
        /\ (c.boxSpace >= 0 /\ c.boxPadding.Left >= 0 /\ c.boxPadding.Right >= 0)
               => NoOverlap

\* the example: texts of 5, 10 and 5 px, padding 2, spacing 4, from x = 10
C6_Witness ==
    /\ Boxed /\ c.boxAlign = "left"
    /\ call.start.X = 10 /\ c.boxSpace = 4
    /\ Len(call.chips) = 3
    /\ [k \in 1..3 |-> Round(Width(call.chips[k].text))] = <<5, 10, 5>>
    /\ [k \in 1..3 |-> call.chips[k].MaxX - call.chips[k].MinX] = <<9, 14, 9>>
    /\ [k \in 1..3 |-> call.chips[k].MinX] = <<10, 23, 41>>

(***************************************************************************)
(* The fine segmentations (package text).  Here a string is its UTF-8      *)
(* bytes, as in Go, and []rune(s) and string(runes) convert.  Code points  *)
(* above U+FFFF do not occur.                                              *)
(***************************************************************************)
IsCont(b) == b \in 128..191

RECURSIVE Runes(_)
\* []rune(s): the code points of s, U+FFFD for each byte that starts none
Runes(s) ==
    IF s = <<>> THEN <<>>
    ELSE LET b == s[1]
         IN  IF b < 128 THEN <<b>> \o Runes(Tail(s))
             ELSE IF b \in 194..223 /\ Len(s) >= 2 /\ IsCont(s[2])
             THEN <<(b - 192) * 64 + (s[2] - 128)>> \o Runes(SubSeq(s, 3, Len(s)))
             ELSE IF /\ b \in 224..239 /\ Len(s) >= 3 /\ IsCont(s[2]) /\ IsCont(s[3])
                     /\ (b = 224 => s[2] >= 160) /\ (b = 237 => s[2] <= 159)
             THEN <<(b - 224) * 4096 + (s[2] - 128) * 64 + (s[3] - 128)>>
                  \o Runes(SubSeq(s, 4, Len(s)))
             ELSE <<65533>> \o Runes(Tail(s))

RECURSIVE String(_)
\* string(runes): the UTF-8 encoding, U+FFFD for a surrogate
String(runes) ==
    IF runes = <<>> THEN <<>>
    ELSE LET r == Head(runes)
             enc == IF r < 128 THEN <<r>>
                    ELSE IF r < 2048 THEN <<192 + (r \div 64), 128 + (r % 64)>>
                    ELSE IF r \in 55296..57343 THEN <<239, 191, 189>>
                    ELSE <<224 + (r \div 4096), 128 + ((r \div 64) % 64), 128 + (r % 64)>>
         IN  enc \o String(Tail(runes))

RECURSIVE SplitFrom(_, _, _)
\* for i := 0; i < len(runes); i += maxLength (i counts from 0)
SplitFrom(runes, i, maxLength) ==
    IF i >= Len(runes) THEN <<>>
    ELSE LET end == IF i + maxLength > Len(runes) THEN Len(runes) ELSE i + maxLength
         IN  <<String(SubSeq(runes, i + 1, end))>> \o SplitFrom(runes, end, maxLength)

RECURSIVE SplitBytesFrom(_, _, _)
SplitBytesFrom(s, i, maxLength) ==
    IF i >= Len(s) THEN <<>>
    ELSE LET end == IF i + maxLength > Len(s) THEN Len(s) ELSE i + maxLength
         IN  <<SubSeq(s, i + 1, end)>> \o SplitBytesFrom(s, end, maxLength)

\* splitLongSegment cutting the bytes of the string, not its runes
splitLongSegmentBytes(segment, maxLength) == SplitBytesFrom(segment, 0, maxLength)

\* splitLongSegment: pieces of maxLength runes, the last one maybe shorter
splitLongSegment(segment, maxLength) == SplitFrom(Runes(segment), 0, maxLength)

RECURSIVE SplitLonger(_, _)
\* the loop of both fine segmentations: a segment of more than maxSegmentLength
\* runes is split, any other is kept
SplitLonger(segments, maxSegmentLength) ==
    IF segments = <<>> THEN <<>>
    ELSE LET segment == Head(segments)
         IN  (IF Len(Runes(segment)) > maxSegmentLength
              THEN splitLongSegment(segment, maxSegmentLength)
              ELSE <<segment>>)
             \o SplitLonger(Tail(segments), maxSegmentLength)

FineMaxSegmentLength == 6

UltraFineMaxSegmentLength == 3

applyFineSegmentation(segments) == SplitLonger(segments, FineMaxSegmentLength)

applyUltraFineSegmentation(segments) == SplitLonger(segments, UltraFineMaxSegmentLength)

\* SegmentForLineBreaksWithLevel, on the segments the parser gave for the text
SegmentForLineBreaksWithLevel(parsed, level) ==
    LET result == FilterEmpty(parsed)
    IN  CASE level = "fine" -> applyFineSegmentation(result)
          [] level = "ultra-fine" -> applyUltraFineSegmentation(result)
          [] OTHER -> result

(***************************************************************************)
(* SpecSeg: the parser's segments are one segment of 1..MaxSegLen runes    *)
(* over 'a' (one byte) and U+3042 (three bytes), alone or followed by a    *)
(* second, short segment; the text is segmented at one of the levels.      *)
(***************************************************************************)
SegRunes == {97, 12354}

SegInputs ==
    LET firsts == {String(r) : r \in Strings(SegRunes, MaxSegLen) \ {<<>>}}
    IN  {<<f>> : f \in firsts} \cup {<<f, String(<<12354, 97>>)>> : f \in firsts}

InitSeg ==
    /\ c = NewCanvas
    /\ call = NoCall
    /\ calls = 0
    /\ lastWidth = [set |-> FALSE, max |-> 0]
    /\ hugo = NoHugo
    /\ seg \in {[NoSeg EXCEPT !.segments = ss] : ss \in SegInputs}

SegmentAt(level) ==
    /\ ~seg.done
    /\ seg' = [seg EXCEPT !.level = level, !.done = TRUE,
                          !.out = SegmentForLineBreaksWithLevel(seg.segments, level)]
    /\ UNCHANGED <<c, call, calls, lastWidth, hugo>>

SegmentDefault == SegmentAt("default")

SegmentFine == SegmentAt("fine")

SegmentUltraFine == SegmentAt("ultra-fine")

NextSeg == SegmentDefault \/ SegmentFine \/ SegmentUltraFine

SpecSeg == InitSeg /\ [][NextSeg]_vars

\* the rune threshold of the level
Threshold == IF seg.level = "fine" THEN FineMaxSegmentLength ELSE UltraFineMaxSegmentLength

\* pieces are the ceil(L / th) pieces of segment s, of L runes: in order, none
\* empty, of th runes each but for a shorter last one, s when joined
PiecesOf(pieces, s, th) ==
    LET L == Len(Runes(s))
        n == Len(pieces)
    IN  /\ n = (L + th - 1) \div th
        /\ \A k \in 1..n :
               LET len == Len(Runes(pieces[k]))
               IN  /\ len >= 1 /\ len <= th
                   /\ k < n => len = th
                   /\ pieces[k] # <<>>
        /\ Join(pieces) = s
        /\ L <= th => pieces = <<s>>

RECURSIVE PiecesOfAll(_, _, _)
PiecesOfAll(out, segments, th) ==
    IF segments = <<>> THEN out = <<>>
    ELSE LET n == (Len(Runes(Head(segments))) + th - 1) \div th
         IN  /\ n <= Len(out)
             /\ PiecesOf(SubSeq(out, 1, n), Head(segments), th)
             /\ PiecesOfAll(SubSeq(out, n + 1, Len(out)), Tail(segments), th)

\* C7: the fine (6) and ultra-fine (3) levels turn a segment of L >= 1 runes
\* into ceil(L / threshold) pieces, in order, none empty, each of threshold
\* runes but for a shorter last one, which join to the segment; a segment of
\* at most threshold runes stays as it is.
C7_FineSegmentation ==
    (seg.done /\ seg.level \in {"fine", "ultra-fine"}) =>
        PiecesOfAll(seg.out, seg.segments, Threshold)

\* a segment of 13 runes, some of them of three bytes, cut at the fine level
\* into 6 + 6 + 1
C7_Witness ==
    /\ seg.done /\ seg.level = "fine"
    /\ Len(seg.segments) = 1
    /\ Len(Runes(seg.segments[1])) = 13
    /\ Len(seg.segments[1]) > 13
    /\ Len(seg.out) = 3
    /\ Len(Runes(seg.out[3])) = 1

(***************************************************************************)
(* Front matter (package hugo).  The header gives each of title, authors,  *)
(* categories and tags as usable ("ok"), missing or empty ("absent") or of *)
(* the wrong type ("badtype"), and each date key as absent, a string in    *)
(* RFC 3339 form, a string in date-only form, any other string, a          *)
(* time.Time, or a value of another type; t is the time a value denotes.   *)
(***************************************************************************)
\* getString, getAuthorsString, getConcatenatedStringItem, getTags: the error
FieldError(v) ==
    IF v = "absent" THEN "NotExist"
    ELSE IF v = "badtype" THEN "InvalidType"
    ELSE "nil"

\* time.Parse(layout, tstr)
TimeParse(layout, v) ==
    IF v.kind = layout THEN [t |-> v.t, err |-> "nil"]
    ELSE [t |-> 0, err |-> "ParseError"]

\* timeFormats: time.RFC3339, then time.DateOnly
timeFormats == <<"rfc3339", "dateonly">>

\* getTime(cfm, fmKey, currentTime)
getTime(cfm, fmKey, currentTime) ==
    LET v == cfm[fmKey]
    IN  IF v.kind = "absent" THEN [t |-> currentTime, err |-> "NotExist"]
        ELSE IF v.kind \in {"rfc3339", "dateonly", "string"}
        THEN IF \E k \in DOMAIN timeFormats : TimeParse(timeFormats[k], v).err = "nil"
             THEN LET k == CHOOSE j \in DOMAIN timeFormats :
                               /\ TimeParse(timeFormats[j], v).err = "nil"
                               /\ \A i \in 1..(j - 1) :
                                      TimeParse(timeFormats[i], v).err # "nil"
                  IN  [t |-> TimeParse(timeFormats[k], v).t, err |-> "nil"]
             ELSE [t |-> currentTime, err |-> "ParseError"]
        ELSE IF v.kind = "time" THEN [t |-> v.t, err |-> "nil"]
        ELSE [t |-> currentTime, err |-> "InvalidType"]

\* fmDate, fmLastmod, fmPublishDate: priority high, middle, low
DateKeys == <<"date", "lastmod", "publishDate">>

RECURSIVE ContentDateFrom(_, _, _, _)
\* the loop over the keys from keys[i] on: a key that does not exist is passed
\* over, any other result is returned
ContentDateFrom(cfm, currentTime, keys, i) ==
    IF i > Len(keys) THEN [t |-> currentTime, err |-> "NotExist"]
    ELSE LET r == getTime(cfm, keys[i], currentTime)
         IN  IF r.err = "NotExist" THEN ContentDateFrom(cfm, currentTime, keys, i + 1)
             ELSE r

\* getContentDate taking the first key's answer, missing or not
getContentDateFirstKey(cfm, currentTime) == getTime(cfm, DateKeys[1], currentTime)

\* getContentDate(cfm, currentTime)
getContentDate(cfm, currentTime) == ContentDateFrom(cfm, currentTime, DateKeys, 1)

\* parseFrontMatter(w, r, currentTime): the record, the error and the writer
parseFrontMatter(w, cfm, currentTime) ==
    LET nothing == [isNil |-> TRUE, Date |-> 0]
        fields == <<cfm.title, cfm.authors, cfm.categories, cfm.tags>>
        bad == {k \in DOMAIN fields : FieldError(fields[k]) # "nil"}
        d == getContentDate(cfm, currentTime)
    IN  IF bad # {}
        THEN [fm |-> nothing, w |-> w,
              err |-> FieldError(fields[CHOOSE k \in bad : \A j \in bad : k <= j])]
        ELSE IF d.err = "nil"
        THEN [fm |-> [isNil |-> FALSE, Date |-> d.t], err |-> "nil", w |-> w]
        ELSE IF d.err = "NotExist"
        THEN [fm |-> [isNil |-> FALSE, Date |-> d.t], err |-> "nil",
              w |-> Append(w, "WARN: date, lastmod, publishDate does not exist")]
        ELSE [fm |-> nothing, err |-> d.err, w |-> w]

(***************************************************************************)
(* SpecFM: one header, parsed once.                                        *)
(***************************************************************************)
FieldValues == {"ok", "absent", "badtype"}

\* the values key number k may hold; the times differ from key to key and
\* from the clock
DateValues(k) ==
    {NoDate, [kind |-> "rfc3339", t |-> 10 * k + 1], [kind |-> "dateonly", t |-> 10 * k + 2],
     [kind |-> "string", t |-> 0], [kind |-> "time", t |-> 10 * k + 3],
     [kind |-> "other", t |-> 0]}

Headers ==
    {[title |-> ti, authors |-> "ok", categories |-> ca, tags |-> "ok",
      date |-> d, lastmod |-> l, publishDate |-> p] :
        ti \in FieldValues, ca \in FieldValues,
        d \in DateValues(1), l \in DateValues(2), p \in DateValues(3)}

InitFM ==
    /\ c = NewCanvas
    /\ call = NoCall
    /\ calls = 0
    /\ lastWidth = [set |-> FALSE, max |-> 0]
    /\ seg = NoSeg
    /\ hugo \in {[NoHugo EXCEPT !.cfm = h, !.currentTime = 99] : h \in Headers}

ParseFrontMatter ==
    /\ ~hugo.done
    /\ LET r == parseFrontMatter(hugo.w, hugo.cfm, hugo.currentTime)
       IN  hugo' = [hugo EXCEPT !.fm = r.fm, !.err = r.err, !.w = r.w, !.done = TRUE]
    /\ UNCHANGED <<c, call, calls, lastWidth, seg>>

NextFM == ParseFrontMatter

SpecFM == InitFM /\ [][NextFM]_vars

Present(key) == hugo.cfm[key].kind # "absent"

\* the key the date comes from: the first present, in priority order
FirstPresent ==
    IF Present("date") THEN "date"
    ELSE IF Present("lastmod") THEN "lastmod"
    ELSE "publishDate"

OtherFieldsOk ==
    \A v \in {hugo.cfm.title, hugo.cfm.authors, hugo.cfm.categories, hugo.cfm.tags} :
        v = "ok"

\* C8: the date comes from the first key present among date, lastmod and
\* publishDate; with none of them the parse still succeeds, the record's Date
\* is the current time given, and exactly one warning line is written.
C8_DateResolution ==
    hugo.done =>
        /\ (hugo.err = "nil" /\ \E k \in DOMAIN DateKeys : Present(DateKeys[k])) =>
               /\ ~hugo.fm.isNil
               /\ hugo.cfm[FirstPresent].kind \in {"rfc3339", "dateonly", "time"}
               /\ hugo.fm.Date = hugo.cfm[FirstPresent].t
               /\ hugo.w = <<>>
        /\ (OtherFieldsOk /\ \A k \in DOMAIN DateKeys : ~Present(DateKeys[k])) =>
               /\ hugo.err = "nil"
               /\ ~hugo.fm.isNil
               /\ hugo.fm.Date = hugo.currentTime
               /\ Len(hugo.w) = 1

\* a header with no date key, parsed with a warning; the date of the record
\* is the clock's
C8_Witness ==
    /\ hugo.done
    /\ \A k \in DOMAIN DateKeys : ~Present(DateKeys[k])
    /\ hugo.err = "nil" /\ hugo.fm.Date = 99 /\ Len(hugo.w) = 1

=============================================================================
